---- MODULE Spec2Model ----
(***************************************************************************)
(* TRV / TCRL block parser and dataset aggregator.                         *)
(*                                                                         *)
(* Model of TRVParser (src/srv/trv_parser.py): parse_file, a single-pass   *)
(* scanner over the lines of a file, and analyze_dataset, the aggregator   *)
(* over the parsed blocks.  Text is modelled at character level: a string  *)
(* is a sequence of one-character strings, so strip(), startswith(),       *)
(* split(',') and int() are computed as Python computes them.              *)
(***************************************************************************)
EXTENDS Integers, Sequences, FiniteSets, TLC

VARIABLES
    pc,              \* position of the program: "idle", "outer", "inner", "done"
    lines,           \* parse_file: lines = f.readlines()
    i,               \* parse_file: the cursor (0-based, as in the code)
    data_blocks,     \* self.data_blocks
    header,          \* parse_file: header of the block being collected
    track_data,      \* parse_file: track points of the block being collected
    actual_records,  \* parse_file: number of points collected for this block
    diagnostics,     \* what the last parse_file call printed, in order
    returned,        \* value returned by the last parse_file call
    analysis,        \* value returned by the last analyze_dataset call
    raised,          \* exception that escaped the last call, or "none"
    fate,            \* history: what the scan did with each line it consumed
    earlier,         \* the list objects self.data_blocks was bound to before
    handed,          \* history: the list every finished parse_file call returned
    result           \* value returned by the last lookup or export call

vars == <<pc, lines, i, data_blocks, header, track_data, actual_records,
          diagnostics, returned, analysis, raised, fate, earlier, handed, result>>

-----------------------------------------------------------------------------
(* Bounds of the model.                                                    *)

\* longest file of freely chosen lines
MaxLines == 4
\* longest track of a generated complete block
MaxTrackLen == 25
\* most parse_file calls made on the one parser instance
MaxCalls == 2
\* largest index print_trv_example is called with
MaxIndex == 3

-----------------------------------------------------------------------------
(* Python str primitives, on sequences of characters.                      *)

Whitespace == {" ", "\n", "\t"}
DigitChars == <<"0", "1", "2", "3", "4", "5", "6", "7", "8", "9">>
DigitSet == {DigitChars[k] : k \in 1..10}
DigitVal(c) == (CHOOSE k \in 1..10 : DigitChars[k] = c) - 1

RECURSIVE LStrip(_)
LStrip(s) ==
    IF s # <<>> /\ Head(s) \in Whitespace THEN LStrip(Tail(s)) ELSE s

RECURSIVE RStrip(_)
RStrip(s) ==
    IF s # <<>> /\ s[Len(s)] \in Whitespace
    THEN RStrip(SubSeq(s, 1, Len(s) - 1))
    ELSE s

\* str.strip()
Strip(s) == RStrip(LStrip(s))

\* str.startswith(prefix)
StartsWith(s, prefix) ==
    /\ Len(s) >= Len(prefix)
    /\ SubSeq(s, 1, Len(prefix)) = prefix

\* str.split(','): always at least one field
RECURSIVE Split(_)
Split(s) ==
    IF \E k \in 1..Len(s) : s[k] = ","
    THEN LET k == CHOOSE k \in 1..Len(s) :
                      /\ s[k] = ","
                      /\ \A j \in 1..(k - 1) : s[j] # ","
         IN  <<SubSeq(s, 1, k - 1)>> \o Split(SubSeq(s, k + 1, Len(s)))
    ELSE <<s>>

\* s[:n]
Prefix(s, n) == SubSeq(s, 1, IF Len(s) < n THEN Len(s) ELSE n)

\* int(s) succeeds: optional surrounding whitespace, optional sign, digits
IntBody(s) ==
    LET t == Strip(s)
    IN  IF t # <<>> /\ Head(t) \in {"+", "-"} THEN Tail(t) ELSE t

IsInt(s) ==
    LET body == IntBody(s)
    IN  /\ body # <<>>
        /\ \A k \in 1..Len(body) : body[k] \in DigitSet

RECURSIVE DigitsValue(_)
DigitsValue(d) ==
    IF d = <<>> THEN 0
    ELSE 10 * DigitsValue(SubSeq(d, 1, Len(d) - 1)) + DigitVal(d[Len(d)])

\* int(s), defined where IsInt(s)
IntValue(s) ==
    LET t == Strip(s)
    IN  IF Head(t) = "-" THEN 0 - DigitsValue(IntBody(s))
        ELSE DigitsValue(IntBody(s))

-----------------------------------------------------------------------------
(* Input files.  A file is the sequence of lines f.readlines() returns:    *)
(* every line keeps its trailing newline.                                  *)

\* ','.join(fields)
RECURSIVE JoinComma(_)
JoinComma(fields) ==
    IF Len(fields) = 1 THEN fields[1]
    ELSE fields[1] \o <<",">> \o JoinComma(Tail(fields))

\* str(n) for n >= 0
RECURSIVE ToDigits(_)
ToDigits(n) ==
    IF n < 10 THEN <<DigitChars[n + 1]>>
    ELSE ToDigits(n \div 10) \o <<DigitChars[(n % 10) + 1]>>

TextLine(fields) == JoinComma(fields) \o <<"\n">>

Flag66666 == <<"6", "6", "6", "6", "6">>
NameKatrina == <<"K", "a", "t", "r", "i", "n", "a">>
NameUpper == <<"K", "A", "T", "R", "I", "N", "A">>
Date1980 == <<"1", "9", "8", "0", "0", "7", "1", "5">>
Date1981 == <<"1", "9", "8", "1", "0", "8", "0", "2">>

\* 66666,8001,<count>,1,8001,<stop>,<name>,<date>
HeaderLine(count, stop, name, date) ==
    TextLine(<<Flag66666, <<"8", "0", "0", "1">>, count, <<"1">>,
               <<"8", "0", "0", "1">>, stop, name, date>>)

\* <time>,251,1203,15,-8,123 : a valid track line
TrackLine(time) ==
    TextLine(<<time, <<"2", "5", "1">>, <<"1", "2", "0", "3">>, <<"1", "5">>,
               <<"-", "8">>, <<"1", "2", "3">>>>)

HdrTwo == HeaderLine(<<"2">>, <<"0">>, NameKatrina, Date1980)
HdrZero == HeaderLine(<<"0">>, <<"7">>, NameUpper, Date1981)
\* a sentinel line with 3 fields
HdrShort == TextLine(<<Flag66666, <<"8", "0", "0", "1">>, <<"2">>>>)
\* a sentinel line with 8 fields and a record count that is no integer
HdrBadInt == HeaderLine(<<"x">>, <<"0">>, NameKatrina, Date1980)
TrkOk == TrackLine(<<"T">>)
\* a track line with 5 fields
TrkShort == TextLine(<<<<"T">>, <<"2", "5", "1">>, <<"1", "2", "0", "3">>,
                       <<"1", "5">>, <<"8">>>>)
\* a track line with 6 fields, one of them no integer
TrkBadInt == TextLine(<<<<"T">>, <<"2", "5", "1">>, <<"x">>, <<"1", "5">>,
                        <<"8">>, <<"1", "2", "3">>>>)
BlankLine == <<"\n">>

LineKinds ==
    {HdrTwo, HdrZero, HdrShort, HdrBadInt, TrkOk, TrkShort, TrkBadInt, BlankLine}

\* every file of at most MaxLines lines drawn from LineKinds
ShortFiles == UNION {[1..n -> LineKinds] : n \in 0..MaxLines}

\* a complete block: a header declaring n points, then n valid track lines
CompleteBlock(n, stop, name, date) ==
    <<HeaderLine(ToDigits(n), stop, name, date)>>
        \o [k \in 1..n |-> TrackLine(<<"T">> \o ToDigits(k))]

\* files of one complete block with a track of up to MaxTrackLen points, and
\* of two complete blocks of n and n - 1 points, of the same or another year
LongFiles ==
    {CompleteBlock(n, <<"1">>, NameKatrina, Date1980) : n \in 0..MaxTrackLen}
    \cup
    {CompleteBlock(n, <<"1">>, NameKatrina, Date1980)
        \o CompleteBlock(n - 1, <<"3">>, NameUpper, d) :
            n \in 1..MaxTrackLen, d \in {Date1980, Date1981}}

\* a block cut short: the header declares n points, n - 1 valid lines follow
TruncatedFiles ==
    {<<HeaderLine(ToDigits(n), <<"2">>, NameKatrina, Date1980)>>
        \o [k \in 1..(n - 1) |-> TrackLine(<<"T">> \o ToDigits(k))] :
            n \in 1..MaxTrackLen}

\* a sentinel line whose first field is longer than the sentinel
HdrLongFlag ==
    TextLine(<<Flag66666 \o <<"7">>, <<"8", "0", "0", "1">>, <<"1">>, <<"1">>,
               <<"8", "0", "0", "1">>, <<"1">>, NameKatrina, Date1980>>)
\* a header line declaring a negative number of records
HdrNegative == HeaderLine(<<"-", "1">>, <<"1">>, NameKatrina, Date1980)
\* a header line whose name holds a quote, a backslash and a tab
NameQuoted == <<"K", "\"", "a", "\\", "t", "\t", "x">>
HdrQuoted == HeaderLine(<<"1">>, <<"1">>, NameQuoted, Date1981)
\* a header line whose start date has three characters
HdrShortDate == HeaderLine(<<"1">>, <<"1">>, NameUpper, <<"1", "9", "8">>)

OddHeaders == {HdrLongFlag, HdrNegative, HdrQuoted, HdrShortDate}

\* files that open with an unusual header line
OddFiles ==
    {<<h>> : h \in OddHeaders}
    \cup {<<h, TrkOk>> : h \in OddHeaders}
    \cup {<<h, TrkOk, HdrTwo, TrkOk>> : h \in OddHeaders}
    \cup {<<HdrTwo, TrkOk, h, TrkOk, HdrTwo, TrkOk>> : h \in OddHeaders}

InputFiles == ShortFiles \cup LongFiles \cup TruncatedFiles \cup OddFiles

\* the files whose blocks the lookups and the exports are applied to: the
\* files above, and every short file of well-formed lines
PlainKinds == {HdrTwo, HdrZero, TrkOk}
QueryFiles ==
    UNION {[1..n -> PlainKinds] : n \in 0..MaxLines}
        \cup LongFiles \cup TruncatedFiles \cup OddFiles

\* the files a parser instance that has parsed before is given next
RepeatFiles ==
    {<<>>, <<HdrZero>>, <<HdrTwo, TrkOk>>, <<HdrTwo, TrkOk, HdrZero>>}

-----------------------------------------------------------------------------
(* parse_file: the records and the tests of the scanner.                   *)

\* every line of every input file
AllLines == UNION {{f[k] : k \in 1..Len(f)} : f \in InputFiles}

\* line.strip().startswith('66666') and line.strip().split(','), computed
\* once for every line
LineTable ==
    [l \in AllLines |->
        [sentinel |-> StartsWith(Strip(l), Flag66666), fields |-> Split(Strip(l))]]

\* every field of every line
AllFields ==
    UNION {{LineTable[l].fields[k] : k \in 1..Len(LineTable[l].fields)} :
               l \in AllLines}

\* int(field), computed once for every field: whether it raises no
\* ValueError, and its value where it raises none
IntTable ==
    [s \in AllFields |->
        [parses |-> IsInt(s), value |-> IF IsInt(s) THEN IntValue(s) ELSE 0]]

FieldIsInt(s) == IntTable[s].parses
FieldInt(s) == IntTable[s].value

HEADER_FIELDS == 8
TRACK_FIELDS == 6

\* HeaderData(flag=..., record_count=int(...), stop_reason=int(...), ...)
HeaderData(f) ==
    [flag |-> f[1], intl_code |-> f[2], record_count |-> FieldInt(f[3]),
     sequence_num |-> f[4], china_code |-> f[5], stop_reason |-> FieldInt(f[6]),
     name |-> f[7], start_date |-> f[8]]

\* the int() calls of the HeaderData construction raise no ValueError
HeaderParses(f) == FieldIsInt(f[3]) /\ FieldIsInt(f[6])

\* TrackData(time=..., lat=int(...), ..., velocity=int(...))
TrackData(f) ==
    [time |-> f[1], lat |-> FieldInt(f[2]), lon |-> FieldInt(f[3]),
     stream_func |-> FieldInt(f[4]), vorticity |-> FieldInt(f[5]),
     velocity |-> FieldInt(f[6])]

\* the int() calls of the TrackData construction raise no ValueError
TrackParses(f) == \A k \in 2..6 : FieldIsInt(f[k])

\* the header variable before any header line has been read
NoHeader ==
    [flag |-> <<>>, intl_code |-> <<>>, record_count |-> 0, sequence_num |-> <<>>,
     china_code |-> <<>>, stop_reason |-> 0, name |-> <<>>, start_date |-> <<>>]

\* lines[i].strip().startswith('66666')
IsHeaderLine(line) == LineTable[line].sentinel

\* lines[i].strip().split(',')
Fields(line) == LineTable[line].fields

\* len(header_fields) != 8
HeaderArityWrong_Seven(f) == Len(f) # HEADER_FIELDS - 1
HeaderArityWrong(f) == Len(f) # HEADER_FIELDS

\* len(track_fields) != 6
TrackArityWrong(f) == Len(f) # TRACK_FIELDS

line_count == Len(lines)
expected_records == header.record_count
\* the line under the cursor
CurrentLine == lines[i + 1]

\* if lines[i].strip().startswith('66666'): break
NextIsHeader_Off == FALSE
NextIsHeader == IsHeaderLine(CurrentLine)

\* while actual_records < expected_records and i < line_count
TrackLoopCond == actual_records < expected_records /\ i < line_count

\* a printed message
Diag(kind, line, name, date, expected, got) ==
    [kind |-> kind, line |-> line, name |-> name, start_date |-> date,
     expected |-> expected, got |-> got]

LineDiag(kind, got) == Diag(kind, i + 1, <<>>, <<>>, 0, got)

\* history of the line under the cursor
Mark(kind, block) == [fate EXCEPT ![i + 1] = [kind |-> kind, block |-> block]]
Unread == [kind |-> "unread", block |-> 0]

-----------------------------------------------------------------------------
(* analyze_dataset.  A dict is a function; {} is the function with the     *)
(* empty domain.                                                           *)

EmptyDict == <<>>
\* analysis and returned before a call, and after a call that raised
NoValue == [no_value |-> TRUE]

\* d.get(k, default)
DictGet(d, k, default) == IF k \in DOMAIN d THEN d[k] ELSE default
\* d[k] = v
DictSet(d, k, v) == [x \in DOMAIN d \cup {k} |-> IF x = k THEN v ELSE d[x]]

YEAR_CHARS == 4
POINTS_6H == 7
POINTS_12H == 13
POINTS_24H == 25

stop_reason_labels ==
    [r \in 0..3 |-> CASE r = 0 -> "No vortex feature"
                      [] r = 1 -> "Vortex merger"
                      [] r = 2 -> "Vortex weakening/splitting"
                      [] r = 3 -> "Moved out of boundary"]

\* stop_reason_labels.get(header.stop_reason, 'Unknown')
ReasonLabel(stop_reason) == DictGet(stop_reason_labels, stop_reason, "Unknown")

\* for reason_id, reason_label in ...: analysis['stop_reason_counts'][reason_label] = 0
InitialStopReasonCounts ==
    [l \in {stop_reason_labels[r] : r \in DOMAIN stop_reason_labels} |-> 0]

\* header.start_date[:4]
YearOf(h) == Prefix(h.start_date, YEAR_CHARS)

\* if track_length >= 7 / >= 13 / >= 25
Meets6h_Nominal(track_length) == track_length >= POINTS_6H - 1
Meets6h(track_length) == track_length >= POINTS_6H
Meets12h_Low(track_length) == track_length >= POINTS_6H - 2
Meets12h(track_length) == track_length >= POINTS_12H
Meets24h(track_length) == track_length >= POINTS_24H

\* d[year] = d.get(year, 0) + 1
CountUp(d, year) == DictSet(d, year, DictGet(d, year, 0) + 1)

\* the state of the aggregation before the loop over the blocks
AnalysisStart ==
    [year_counts |-> EmptyDict, d6 |-> EmptyDict, d12 |-> EmptyDict,
     d24 |-> EmptyDict, stop_reason_counts |-> InitialStopReasonCounts,
     track_lengths |-> <<>>, raised |-> "none"]

\* the loop body with the declared count taken for the track length
AnalyzeBlock_Declared(acc, block) ==
    LET track_length == block.header.record_count
        year == YearOf(block.header)
        reason_label == ReasonLabel(block.header.stop_reason)
    IN  IF reason_label \notin DOMAIN acc.stop_reason_counts
        THEN [acc EXCEPT !.raised = "KeyError"]
        ELSE [year_counts |-> CountUp(acc.year_counts, year),
              d6 |-> IF Meets6h(track_length) THEN CountUp(acc.d6, year)
                     ELSE acc.d6,
              d12 |-> IF Meets12h(track_length) THEN CountUp(acc.d12, year)
                      ELSE acc.d12,
              d24 |-> IF Meets24h(track_length) THEN CountUp(acc.d24, year)
                      ELSE acc.d24,
              stop_reason_counts |->
                  DictSet(acc.stop_reason_counts, reason_label,
                          acc.stop_reason_counts[reason_label] + 1),
              track_lengths |-> Append(acc.track_lengths, track_length),
              raised |-> "none"]

\* the body of "for block in self.data_blocks"; d[label] += 1 on a key the
\* dict does not hold raises KeyError
AnalyzeBlock(acc, block) ==
    LET track_length == Len(block.track)
        year == YearOf(block.header)
        reason_label == ReasonLabel(block.header.stop_reason)
    IN  IF reason_label \notin DOMAIN acc.stop_reason_counts
        THEN [acc EXCEPT !.raised = "KeyError"]
        ELSE [year_counts |-> CountUp(acc.year_counts, year),
              d6 |-> IF Meets6h(track_length) THEN CountUp(acc.d6, year)
                     ELSE acc.d6,
              d12 |-> IF Meets12h(track_length) THEN CountUp(acc.d12, year)
                      ELSE acc.d12,
              d24 |-> IF Meets24h(track_length) THEN CountUp(acc.d24, year)
                      ELSE acc.d24,
              stop_reason_counts |->
                  DictSet(acc.stop_reason_counts, reason_label,
                          acc.stop_reason_counts[reason_label] + 1),
              track_lengths |-> Append(acc.track_lengths, track_length),
              raised |-> "none"]

RECURSIVE AnalyzeLoop(_, _, _)
AnalyzeLoop(acc, blocks, k) ==
    IF k > Len(blocks) \/ acc.raised # "none" THEN acc
    ELSE AnalyzeLoop(AnalyzeBlock(acc, blocks[k]), blocks, k + 1)

RECURSIVE SeqSum(_)
SeqSum(q) == IF q = <<>> THEN 0 ELSE Head(q) + SeqSum(Tail(q))
SeqMin(q) == CHOOSE m \in {q[k] : k \in 1..Len(q)} : \A k \in 1..Len(q) : m <= q[k]
SeqMax(q) == CHOOSE m \in {q[k] : k \in 1..Len(q)} : \A k \in 1..Len(q) : m >= q[k]

\* if track_lengths
HasLengths(track_lengths) == track_lengths # <<>>

\* min() and max() of an empty list raise ValueError, before sum / len divides
StatsRaise(track_lengths) == HasLengths(track_lengths) /\ Len(track_lengths) = 0

\* the track_length_stats dict; the mean is kept as the fraction sum / len
TrackLengthStats(track_lengths) ==
    IF HasLengths(track_lengths)
    THEN [min |-> SeqMin(track_lengths), max |-> SeqMax(track_lengths),
          mean |-> [num |-> SeqSum(track_lengths), den |-> Len(track_lengths)],
          total_points |-> SeqSum(track_lengths)]
    ELSE EmptyDict

\* the order of Python strings: by code point, a proper prefix first
CodeOrder ==
    <<"\t", "\n", " ", "+", ",", "-", "0", "1", "2", "3", "4", "5", "6", "7",
      "8", "9", "A", "I", "K", "N", "R", "T", "a", "i", "k", "n", "r", "t", "x">>
Ord(c) == CHOOSE k \in 1..Len(CodeOrder) : CodeOrder[k] = c

RECURSIVE StrLess(_, _)
StrLess(a, b) ==
    IF b = <<>> THEN FALSE
    ELSE IF a = <<>> THEN TRUE
    ELSE IF Head(a) # Head(b) THEN Ord(Head(a)) < Ord(Head(b))
    ELSE StrLess(Tail(a), Tail(b))

\* sorted(keys)
RECURSIVE Sorted(_)
Sorted(S) ==
    IF S = {} THEN <<>>
    ELSE LET m == CHOOSE x \in S : \A y \in S \ {x} : StrLess(x, y)
         IN  <<m>> \o Sorted(S \ {m})

FillYears_Skip(d, years_covered) == d

\* for year in years_covered: if year not in d: d[year] = 0
FillYears(d, years_covered) ==
    [y \in DOMAIN d \cup {years_covered[k] : k \in 1..Len(years_covered)} |->
        DictGet(d, y, 0)]

\* if not self.data_blocks
NothingParsed_Never(blocks) == FALSE
NothingParsed(blocks) == blocks = <<>>

\* analyze_dataset(): [raised, value]
AnalyzeDataset(blocks) ==
    IF NothingParsed(blocks) THEN [raised |-> "none", value |-> EmptyDict]
    ELSE LET acc == AnalyzeLoop(AnalysisStart, blocks, 1)
             years_covered == Sorted(DOMAIN acc.year_counts)
         IN  IF acc.raised # "none"
             THEN [raised |-> acc.raised, value |-> NoValue]
             ELSE IF StatsRaise(acc.track_lengths)
             THEN [raised |-> "ValueError", value |-> NoValue]
             ELSE [raised |-> "none",
                   value |->
                     [total_blocks |-> Len(blocks),
                      year_counts |-> acc.year_counts,
                      year_counts_by_duration |->
                          [h6 |-> FillYears(acc.d6, years_covered),
                           h12 |-> FillYears(acc.d12, years_covered),
                           h24 |-> FillYears(acc.d24, years_covered)],
                      stop_reason_counts |-> acc.stop_reason_counts,
                      track_length_stats |-> TrackLengthStats(acc.track_lengths),
                      years_covered |-> years_covered]]

-----------------------------------------------------------------------------
(* get_trv_by_name, get_trv_by_year.                                       *)

UpperChars ==
    <<"A", "B", "C", "D", "E", "F", "G", "H", "I", "J", "K", "L", "M",
      "N", "O", "P", "Q", "R", "S", "T", "U", "V", "W", "X", "Y", "Z">>
LowerChars ==
    <<"a", "b", "c", "d", "e", "f", "g", "h", "i", "j", "k", "l", "m",
      "n", "o", "p", "q", "r", "s", "t", "u", "v", "w", "x", "y", "z">>

LowerChar(c) ==
    IF \E k \in 1..Len(UpperChars) : UpperChars[k] = c
    THEN LowerChars[CHOOSE k \in 1..Len(UpperChars) : UpperChars[k] = c]
    ELSE c

\* str.lower()
Lower(s) == [k \in 1..Len(s) |-> LowerChar(s[k])]

\* block['header'].name.lower() == name.lower()
NameMatches_Exact(block, name) == block.header.name = name
NameMatches(block, name) == Lower(block.header.name) = Lower(name)

\* block['header'].start_date.startswith(year)
YearMatches_Anywhere(block, year) ==
    \E k \in 0..Len(block.header.start_date) :
        StartsWith(SubSeq(block.header.start_date, k + 1,
                          Len(block.header.start_date)), year)
YearMatches(block, year) == StartsWith(block.header.start_date, year)

\* [block for block in self.data_blocks if ...]
GetByName(blocks, name) == SelectSeq(blocks, LAMBDA b : NameMatches(b, name))
GetByYear(blocks, year) == SelectSeq(blocks, LAMBDA b : YearMatches(b, year))

\* the names and the years asked for
NameQueries ==
    {NameKatrina, NameUpper, <<"k", "a", "t", "r", "i", "n", "a">>,
     <<"K", "a", "t">>}
YearQueries ==
    {<<"1", "9", "8", "0">>, <<"1", "9", "8", "1">>, <<"9", "8", "0", "0">>}

-----------------------------------------------------------------------------
(* export_to_json, export_to_csv.  A value that json.dump writes is an int *)
(* or a str; the text written for it is computed character by character.   *)

PyInt(n) == [type |-> "int", n |-> n, s |-> <<>>]
PyStr(s) == [type |-> "str", n |-> 0, s |-> s]

\* block['header']._asdict()
HeaderAsDict(h) ==
    [flag |-> PyStr(h.flag), intl_code |-> PyStr(h.intl_code),
     record_count |-> PyInt(h.record_count),
     sequence_num |-> PyStr(h.sequence_num), china_code |-> PyStr(h.china_code),
     stop_reason |-> PyInt(h.stop_reason), name |-> PyStr(h.name),
     start_date |-> PyStr(h.start_date)]

\* t._asdict()
TrackAsDict(t) ==
    [time |-> PyStr(t.time), lat |-> PyInt(t.lat), lon |-> PyInt(t.lon),
     stream_func |-> PyInt(t.stream_func), vorticity |-> PyInt(t.vorticity),
     velocity |-> PyInt(t.velocity)]

\* the serializable_data list
Serializable(blocks) ==
    [k \in 1..Len(blocks) |->
        [header |-> HeaderAsDict(blocks[k].header),
         track |-> [j \in 1..Len(blocks[k].track) |->
                       TrackAsDict(blocks[k].track[j])]]]

\* the text json.dump writes for an int
IntText(n) == IF n < 0 THEN <<"-">> \o ToDigits(0 - n) ELSE ToDigits(n)

\* the text json.dump writes inside the quotes of a str
RECURSIVE JsonEscape(_)
JsonEscape(s) ==
    IF s = <<>> THEN <<>>
    ELSE (CASE Head(s) = "\"" -> <<"\\", "\"">>
            [] Head(s) = "\\" -> <<"\\", "\\">>
            [] Head(s) = "\t" -> <<"\\", "t">>
            [] OTHER -> <<Head(s)>>) \o JsonEscape(Tail(s))

\* the text json.dump writes for a value
JsonScalar_Bare(v) == IF v.type = "int" THEN IntText(v.n) ELSE JsonEscape(v.s)
JsonScalar(v) ==
    IF v.type = "int" THEN IntText(v.n)
    ELSE <<"\"">> \o JsonEscape(v.s) \o <<"\"">>

\* the members of a JSON object: the text of every value, under its key
JsonObject(d) == [k \in DOMAIN d |-> JsonScalar(d[k])]

\* json.dump(serializable_data, f, ensure_ascii=False, indent=2)
JsonDump(data) ==
    [k \in 1..Len(data) |->
        [header |-> JsonObject(data[k].header),
         track |-> [j \in 1..Len(data[k].track) |-> JsonObject(data[k].track[j])]]]

\* track.lat / 10.0: a float, kept as the fraction it stands for
Div10(n) == [num |-> n, den |-> 10]

\* the first row export_to_csv writes
CsvColumns ==
    <<"TRV_Name", "Start_Date", "China_Code", "Stop_Reason", "Time", "Latitude",
      "Longitude", "Stream_Function", "Vorticity", "Velocity">>

\* writer.writerow([header.name, ..., track.velocity / 10.0])
CsvRow(h, t) ==
    [TRV_Name |-> h.name, Start_Date |-> h.start_date,
     China_Code |-> h.china_code, Stop_Reason |-> h.stop_reason,
     Time |-> t.time, Latitude |-> Div10(t.lat), Longitude |-> Div10(t.lon),
     Stream_Function |-> t.stream_func, Vorticity |-> t.vorticity,
     Velocity |-> Div10(t.velocity)]

\* for track in block['track']: writer.writerow(...)
BlockRows_Padded(block) ==
    IF block.track = <<>> THEN <<CsvRow(block.header, TrackData(Fields(TrkOk)))>>
    ELSE [j \in 1..Len(block.track) |-> CsvRow(block.header, block.track[j])]
BlockRows(block) ==
    [j \in 1..Len(block.track) |-> CsvRow(block.header, block.track[j])]

\* for block in self.data_blocks: ...
RECURSIVE CsvRows(_)
CsvRows(blocks) ==
    IF blocks = <<>> THEN <<>>
    ELSE BlockRows(Head(blocks)) \o CsvRows(Tail(blocks))

-----------------------------------------------------------------------------
(* print_trv_example (src/TRV_analysis/srv/analysis_utils.py).             *)

EXAMPLE_6H == 6
EXAMPLE_12H == 12
EXAMPLE_24H == 24
FIRST_POINTS == 3

ExampleReasonLabels ==
    [r \in 0..3 |-> CASE r = 0 -> "No vortex feature"
                      [] r = 1 -> "Vortex merger"
                      [] r = 2 -> "Vortex weakening/splitting"
                      [] r = 3 -> "Moved out of boundary"]

\* what a call has shown when it returns or raises
Shown(what, track_length, m6, m12, m24, reason_text, first, exc) ==
    [shown |-> what, track_length |-> track_length, meets6h |-> m6,
     meets12h |-> m12, meets24h |-> m24, reason_text |-> reason_text,
     first_points |-> first, raised |-> exc]

\* block['track'][-1] raises IndexError on an empty list
LastPointRaises(track) == track = <<>>

\* print_trv_example(data_blocks, index)
PrintExample(blocks, index) ==
    IF blocks = <<>>
    THEN Shown("no_data", 0, FALSE, FALSE, FALSE, "", <<>>, "none")
    ELSE IF index >= Len(blocks)
    THEN Shown("out_of_range", 0, FALSE, FALSE, FALSE, "", <<>>, "none")
    ELSE LET block == blocks[index + 1]
             track_length == Len(block.track)
         IN  Shown("example", track_length,
                   track_length >= EXAMPLE_6H,
                   track_length >= EXAMPLE_12H,
                   track_length >= EXAMPLE_24H,
                   DictGet(ExampleReasonLabels, block.header.stop_reason, "Unknown"),
                   Prefix(block.track, FIRST_POINTS),
                   IF LastPointRaises(block.track) THEN "IndexError" ELSE "none")

-----------------------------------------------------------------------------
(* TCRLParser (src/TCRL_analysis.py): the other parser variant.  Its       *)
(* parse_file and analyze_dataset are computed as functions of the lines   *)
(* and of the blocks, the loops as recursions on the cursor.               *)

\* HeaderData(flag=..., record_count=int(...), ...) of TCRL_analysis.py
TcrlHeaderData(f) ==
    [flag |-> f[1], intl_code |-> f[2], record_count |-> FieldInt(f[3]),
     sequence_num |-> f[4], china_code |-> f[5], stop_reason |-> FieldInt(f[6]),
     name |-> f[7], start_date |-> f[8]]

TcrlHeaderParses(f) == FieldIsInt(f[3]) /\ FieldIsInt(f[6])

\* TrackData(time=..., lat=int(...), ...) of TCRL_analysis.py
TcrlTrackData(f) ==
    [time |-> f[1], lat |-> FieldInt(f[2]), lon |-> FieldInt(f[3]),
     stream_func |-> FieldInt(f[4]), vorticity |-> FieldInt(f[5]),
     velocity |-> FieldInt(f[6])]

TcrlTrackParses(f) == \A k \in 2..6 : FieldIsInt(f[k])

\* len(header_fields) != 8
TcrlHeaderArityWrong(f) == Len(f) # 8

\* len(track_fields) != 6
TcrlTrackArityWrong_Five(f) == Len(f) # 5
TcrlTrackArityWrong(f) == Len(f) # 6

\* the track loop, from cursor c on: the cursor it ends at and the track
RECURSIVE TcrlTrackLoop(_, _, _, _, _)
TcrlTrackLoop(ls, c, expected, track, actual) ==
    IF ~(actual < expected /\ c < Len(ls)) THEN [i |-> c, track |-> track]
    ELSE IF IsHeaderLine(ls[c + 1]) THEN [i |-> c, track |-> track]
    ELSE IF TcrlTrackArityWrong(Fields(ls[c + 1]))
    THEN TcrlTrackLoop(ls, c + 1, expected, track, actual)
    ELSE IF TcrlTrackParses(Fields(ls[c + 1]))
    THEN TcrlTrackLoop(ls, c + 1, expected,
                       Append(track, TcrlTrackData(Fields(ls[c + 1]))), actual + 1)
    ELSE TcrlTrackLoop(ls, c + 1, expected, track, actual)

\* the outer loop, from cursor c on
RECURSIVE TcrlScan(_, _, _)
TcrlScan(ls, c, blocks) ==
    IF ~(c < Len(ls)) THEN blocks
    ELSE IF IsHeaderLine(ls[c + 1])
    THEN IF TcrlHeaderArityWrong(Fields(ls[c + 1]))
         THEN TcrlScan(ls, c + 1, blocks)
         ELSE IF ~TcrlHeaderParses(Fields(ls[c + 1]))
         THEN TcrlScan(ls, c + 1, blocks)
         ELSE LET h == TcrlHeaderData(Fields(ls[c + 1]))
                  t == TcrlTrackLoop(ls, c + 1, h.record_count, <<>>, 0)
              IN  TcrlScan(ls, t.i, Append(blocks, [header |-> h, track |-> t.track]))
    ELSE TcrlScan(ls, c + 1, blocks)

\* TCRLParser.parse_file on a readable file of these lines
TcrlParseFile(ls) == TcrlScan(ls, 0, <<>>)

TcrlStopReasonLabels ==
    [r \in 0..3 |-> CASE r = 0 -> "No vortex feature"
                      [] r = 1 -> "Vortex merger"
                      [] r = 2 -> "Vortex weakening/splitting"
                      [] r = 3 -> "Moved out of boundary"]

\* the body of "for block in self.data_blocks" of TCRLParser.analyze_dataset
TcrlAnalyzeBlock(acc, block) ==
    LET year == Prefix(block.header.start_date, 4)
        reason_label == DictGet(TcrlStopReasonLabels, block.header.stop_reason,
                                "Unknown")
    IN  IF reason_label \notin DOMAIN acc.stop_reason_counts
        THEN [acc EXCEPT !.raised = "KeyError"]
        ELSE [year_counts |-> CountUp(acc.year_counts, year),
              stop_reason_counts |->
                  DictSet(acc.stop_reason_counts, reason_label,
                          acc.stop_reason_counts[reason_label] + 1),
              track_lengths |-> Append(acc.track_lengths, Len(block.track)),
              raised |-> "none"]

RECURSIVE TcrlAnalyzeLoop(_, _, _)
TcrlAnalyzeLoop(acc, blocks, k) ==
    IF k > Len(blocks) \/ acc.raised # "none" THEN acc
    ELSE TcrlAnalyzeLoop(TcrlAnalyzeBlock(acc, blocks[k]), blocks, k + 1)

\* TCRLParser.analyze_dataset(): [raised, value]
TcrlAnalyzeDataset(blocks) ==
    IF blocks = <<>> THEN [raised |-> "none", value |-> EmptyDict]
    ELSE LET acc == TcrlAnalyzeLoop(
                        [year_counts |-> EmptyDict,
                         stop_reason_counts |->
                             [l \in {TcrlStopReasonLabels[r] :
                                        r \in DOMAIN TcrlStopReasonLabels} |-> 0],
                         track_lengths |-> <<>>, raised |-> "none"],
                        blocks, 1)
         IN  IF acc.raised # "none"
             THEN [raised |-> acc.raised, value |-> NoValue]
             ELSE [raised |-> "none",
                   value |->
                     [total_blocks |-> Len(blocks),
                      year_counts |-> acc.year_counts,
                      stop_reason_counts |-> acc.stop_reason_counts,
                      track_length_stats |->
                          IF acc.track_lengths # <<>>
                          THEN [min |-> SeqMin(acc.track_lengths),
                                max |-> SeqMax(acc.track_lengths),
                                mean |-> [num |-> SeqSum(acc.track_lengths),
                                          den |-> Len(acc.track_lengths)],
                                total_points |-> SeqSum(acc.track_lengths)]
                          ELSE EmptyDict,
                      years_covered |-> Sorted(DOMAIN acc.year_counts)]]

-----------------------------------------------------------------------------
(* parse_file: the actions.                                                *)

\* the list object self.data_blocks is bound to: objects are numbered in
\* the order the parser created them, __init__ creating the first
SelfList == Len(earlier) + 1
\* a list object nothing but the caller refers to
NewList == 0
\* result before any lookup or export call
NoResult == [op |-> "none", arg |-> <<>>, ok |-> FALSE, value |-> <<>>]

Init ==
    /\ pc = "idle"
    /\ lines = <<>>
    /\ i = 0
    /\ data_blocks = <<>>
    /\ header = NoHeader
    /\ track_data = <<>>
    /\ actual_records = 0
    /\ diagnostics = <<>>
    /\ returned = <<>>
    /\ analysis = NoValue
    /\ raised = "none"
    /\ fate = <<>>
    /\ earlier = <<>>
    /\ handed = <<>>
    /\ result = NoResult

\* the reset written as self.data_blocks.clear(): the same list object
ParseFile_Clear(f) ==
    /\ pc \in {"idle", "done"}
    /\ pc' = "outer"
    /\ data_blocks' = <<>>
    /\ lines' = f
    /\ i' = 0
    /\ fate' = [j \in 1..Len(f) |-> Unread]
    /\ diagnostics' = <<>>
    /\ analysis' = NoValue
    /\ raised' = "none"
    /\ result' = NoResult
    /\ UNCHANGED <<header, track_data, actual_records, returned, earlier, handed>>

\* parse_file is called on a readable file: self.data_blocks = [] binds a new
\* list object and leaves the old one as it is; read, start the outer loop
ParseFile(f) ==
    /\ pc \in {"idle", "done"}
    /\ pc' = "outer"
    /\ earlier' = Append(earlier, data_blocks)
    /\ data_blocks' = <<>>
    /\ lines' = f
    /\ i' = 0
    /\ fate' = [j \in 1..Len(f) |-> Unread]
    /\ diagnostics' = <<>>
    /\ analysis' = NoValue
    /\ raised' = "none"
    /\ result' = NoResult
    /\ UNCHANGED <<header, track_data, actual_records, returned, handed>>

\* parse_file is called on a file open() or readlines() fails on
ParseFileUnreadable_Raises(err) ==
    /\ pc \in {"idle", "done"}
    /\ pc' = "done"
    /\ earlier' = Append(earlier, data_blocks)
    /\ data_blocks' = <<>>
    /\ diagnostics' = <<>>
    /\ raised' = err
    /\ analysis' = NoValue
    /\ result' = NoResult
    /\ lines' = <<>>
    /\ i' = 0
    /\ fate' = <<>>
    /\ UNCHANGED <<header, track_data, actual_records, returned, handed>>

\* the reset made only once the file has been read: a failed call keeps
\* the blocks of the call before
ParseFileUnreadable_Keeps(err) ==
    /\ pc \in {"idle", "done"}
    /\ pc' = "done"
    /\ diagnostics' = <<Diag(err, 0, <<>>, <<>>, 0, 0)>>
    /\ returned' = <<>>
    /\ handed' = Append(handed, [obj |-> NewList, was |-> <<>>])
    /\ analysis' = NoValue
    /\ raised' = "none"
    /\ result' = NoResult
    /\ lines' = <<>>
    /\ i' = 0
    /\ fate' = <<>>
    /\ UNCHANGED <<data_blocks, earlier, header, track_data, actual_records>>

\* the except clauses print the error and return a new empty list; the call
\* has read no lines
ParseFileUnreadable(err) ==
    /\ pc \in {"idle", "done"}
    /\ pc' = "done"
    /\ earlier' = Append(earlier, data_blocks)
    /\ data_blocks' = <<>>
    /\ diagnostics' = <<Diag(err, 0, <<>>, <<>>, 0, 0)>>
    /\ returned' = <<>>
    /\ handed' = Append(handed, [obj |-> NewList, was |-> <<>>])
    /\ analysis' = NoValue
    /\ raised' = "none"
    /\ result' = NoResult
    /\ lines' = <<>>
    /\ i' = 0
    /\ fate' = <<>>
    /\ UNCHANGED <<header, track_data, actual_records>>

\* a sentinel line whose field count is not 8
OnHeaderBadArity ==
    /\ pc = "outer" /\ i < line_count
    /\ IsHeaderLine(CurrentLine)
    /\ HeaderArityWrong(Fields(CurrentLine))

HeaderBadArity_Silent ==
    /\ OnHeaderBadArity
    /\ i' = i + 1
    /\ fate' = Mark("dropped", 0)
    /\ UNCHANGED <<pc, lines, data_blocks, header, track_data, actual_records,
                   diagnostics, returned, analysis, raised,
                   earlier, handed, result>>

HeaderBadArity ==
    /\ OnHeaderBadArity
    /\ diagnostics' = Append(diagnostics,
                             LineDiag("header_fields", Len(Fields(CurrentLine))))
    /\ i' = i + 1
    /\ fate' = Mark("dropped", 0)
    /\ UNCHANGED <<pc, lines, data_blocks, header, track_data, actual_records,
                   returned, analysis, raised,
                   earlier, handed, result>>

\* a sentinel line with 8 fields, int() of the count or the stop reason fails
OnHeaderValueError ==
    /\ pc = "outer" /\ i < line_count
    /\ IsHeaderLine(CurrentLine)
    /\ ~HeaderArityWrong(Fields(CurrentLine))
    /\ ~HeaderParses(Fields(CurrentLine))

\* the dropped header leaves an empty block behind
HeaderValueError_Block ==
    /\ OnHeaderValueError
    /\ diagnostics' = Append(diagnostics, LineDiag("header_parse", 0))
    /\ i' = i + 1
    /\ fate' = Mark("dropped", 0)
    /\ data_blocks' = Append(data_blocks, [header |-> NoHeader, track |-> <<>>])
    /\ UNCHANGED <<pc, lines, header, track_data, actual_records,
                   returned, analysis, raised, earlier, handed, result>>

HeaderValueError ==
    /\ OnHeaderValueError
    /\ diagnostics' = Append(diagnostics, LineDiag("header_parse", 0))
    /\ i' = i + 1
    /\ fate' = Mark("dropped", 0)
    /\ UNCHANGED <<pc, lines, data_blocks, header, track_data, actual_records,
                   returned, analysis, raised,
                   earlier, handed, result>>

\* a header line: build the header, move past it, start collecting the track
OnHeaderAccepted ==
    /\ pc = "outer" /\ i < line_count
    /\ IsHeaderLine(CurrentLine)
    /\ ~HeaderArityWrong(Fields(CurrentLine))
    /\ HeaderParses(Fields(CurrentLine))

HeaderAccepted ==
    /\ OnHeaderAccepted
    /\ header' = HeaderData(Fields(CurrentLine))
    /\ i' = i + 1
    /\ track_data' = <<>>
    /\ actual_records' = 0
    /\ pc' = "inner"
    /\ fate' = Mark("header", Len(data_blocks) + 1)
    /\ UNCHANGED <<lines, data_blocks, diagnostics, returned, analysis, raised,
                   earlier, handed, result>>

\* the else branch of the outer loop: the line does not start with the sentinel
OnSkipLine ==
    /\ pc = "outer" /\ i < line_count
    /\ ~IsHeaderLine(CurrentLine)

SkipLine ==
    /\ OnSkipLine
    /\ i' = i + 1
    /\ fate' = Mark("dropped", 0)
    /\ UNCHANGED <<pc, lines, data_blocks, header, track_data, actual_records,
                   diagnostics, returned, analysis, raised,
                   earlier, handed, result>>

\* the outer loop ends: print the number of blocks and return self.data_blocks
OnParseReturn ==
    /\ pc = "outer" /\ ~(i < line_count)

ParseReturn ==
    /\ OnParseReturn
    /\ diagnostics' = Append(diagnostics,
                             Diag("parsed", 0, <<>>, <<>>, 0, Len(data_blocks)))
    /\ returned' = data_blocks
    /\ handed' = Append(handed, [obj |-> SelfList, was |-> data_blocks])
    /\ pc' = "done"
    /\ UNCHANGED <<lines, i, data_blocks, header, track_data, actual_records,
                   analysis, raised, fate, earlier, result>>

StoreBlock_Silent ==
    /\ data_blocks' = Append(data_blocks, [header |-> header, track |-> track_data])
    /\ pc' = "outer"
    /\ header' = NoHeader
    /\ track_data' = <<>>
    /\ actual_records' = 0
    /\ UNCHANGED <<lines, i, diagnostics, returned, analysis, raised, fate,
                   earlier, handed, result>>

\* after the track loop: the count check and self.data_blocks.append
StoreBlock ==
    /\ diagnostics' =
           IF actual_records # expected_records
           THEN Append(diagnostics,
                       Diag("mismatch", 0, header.name, header.start_date,
                            expected_records, actual_records))
           ELSE diagnostics
    /\ data_blocks' = Append(data_blocks, [header |-> header, track |-> track_data])
    /\ pc' = "outer"
    /\ header' = NoHeader
    /\ track_data' = <<>>
    /\ actual_records' = 0
    /\ UNCHANGED <<lines, i, returned, analysis, raised, fate,
                   earlier, handed, result>>

\* the track loop's condition is false: count reached or end of input
OnTrackLoopEnd ==
    /\ pc = "inner"
    /\ ~TrackLoopCond

TrackLoopEnd ==
    /\ OnTrackLoopEnd
    /\ StoreBlock

\* the line under the cursor starts with the sentinel: break, cursor unchanged
OnTrackSentinelBreak ==
    /\ pc = "inner"
    /\ TrackLoopCond
    /\ NextIsHeader

TrackSentinelBreak ==
    /\ OnTrackSentinelBreak
    /\ StoreBlock

\* a track line whose field count is not 6
OnTrackBadArity ==
    /\ pc = "inner"
    /\ TrackLoopCond
    /\ ~NextIsHeader
    /\ TrackArityWrong(Fields(CurrentLine))

TrackBadArity_Counted ==
    /\ OnTrackBadArity
    /\ diagnostics' = Append(diagnostics,
                             LineDiag("track_fields", Len(Fields(CurrentLine))))
    /\ i' = i + 1
    /\ actual_records' = actual_records + 1
    /\ fate' = Mark("dropped", 0)
    /\ UNCHANGED <<pc, lines, data_blocks, header, track_data, returned,
                   analysis, raised,
                   earlier, handed, result>>

TrackBadArity ==
    /\ OnTrackBadArity
    /\ diagnostics' = Append(diagnostics,
                             LineDiag("track_fields", Len(Fields(CurrentLine))))
    /\ i' = i + 1
    /\ fate' = Mark("dropped", 0)
    /\ UNCHANGED <<pc, lines, data_blocks, header, track_data, actual_records,
                   returned, analysis, raised,
                   earlier, handed, result>>

\* a track line with 6 fields, int() of a numeric field fails
OnTrackValueError ==
    /\ pc = "inner"
    /\ TrackLoopCond
    /\ ~NextIsHeader
    /\ ~TrackArityWrong(Fields(CurrentLine))
    /\ ~TrackParses(Fields(CurrentLine))

TrackValueError_Stuck ==
    /\ OnTrackValueError
    /\ diagnostics' = Append(diagnostics, LineDiag("track_parse", 0))
    /\ UNCHANGED <<pc, lines, i, data_blocks, header, track_data, actual_records,
                   returned, analysis, raised, fate,
                   earlier, handed, result>>

TrackValueError ==
    /\ OnTrackValueError
    /\ diagnostics' = Append(diagnostics, LineDiag("track_parse", 0))
    /\ i' = i + 1
    /\ fate' = Mark("dropped", 0)
    /\ UNCHANGED <<pc, lines, data_blocks, header, track_data, actual_records,
                   returned, analysis, raised,
                   earlier, handed, result>>

\* a track line: append the point, count it, move on
OnTrackAppend ==
    /\ pc = "inner"
    /\ TrackLoopCond
    /\ ~NextIsHeader
    /\ ~TrackArityWrong(Fields(CurrentLine))
    /\ TrackParses(Fields(CurrentLine))

\* the point is appended and not counted
TrackAppend_Uncounted ==
    /\ OnTrackAppend
    /\ track_data' = Append(track_data, TrackData(Fields(CurrentLine)))
    /\ i' = i + 1
    /\ fate' = Mark("track", Len(data_blocks) + 1)
    /\ UNCHANGED <<pc, lines, data_blocks, header, actual_records, diagnostics,
                   returned, analysis, raised, earlier, handed, result>>

TrackAppend ==
    /\ OnTrackAppend
    /\ track_data' = Append(track_data, TrackData(Fields(CurrentLine)))
    /\ actual_records' = actual_records + 1
    /\ i' = i + 1
    /\ fate' = Mark("track", Len(data_blocks) + 1)
    /\ UNCHANGED <<pc, lines, data_blocks, header, diagnostics, returned,
                   analysis, raised,
                   earlier, handed, result>>

\* an aggregation that takes the blocks off the list as it counts them
Analyze_Consuming ==
    /\ pc \in {"idle", "done"}
    /\ analysis' = AnalyzeDataset(data_blocks).value
    /\ raised' = AnalyzeDataset(data_blocks).raised
    /\ data_blocks' = <<>>
    /\ UNCHANGED <<pc, lines, i, header, track_data, actual_records,
                   diagnostics, returned, fate, earlier, handed, result>>

\* analyze_dataset is called between parses; it reads self.data_blocks only
Analyze ==
    /\ pc \in {"idle", "done"}
    /\ analysis' = AnalyzeDataset(data_blocks).value
    /\ raised' = AnalyzeDataset(data_blocks).raised
    /\ UNCHANGED <<pc, lines, i, data_blocks, header, track_data, actual_records,
                   diagnostics, returned, fate,
                   earlier, handed, result>>

\* get_trv_by_name(name)
GetTrvByName(name) ==
    /\ pc \in {"idle", "done"}
    /\ result' = [op |-> "get_trv_by_name", arg |-> name, ok |-> TRUE,
                  value |-> GetByName(data_blocks, name)]
    /\ UNCHANGED <<pc, lines, i, data_blocks, header, track_data, actual_records,
                   diagnostics, returned, analysis, raised, fate, earlier, handed>>

\* get_trv_by_year(year)
GetTrvByYear(year) ==
    /\ pc \in {"idle", "done"}
    /\ result' = [op |-> "get_trv_by_year", arg |-> year, ok |-> TRUE,
                  value |-> GetByYear(data_blocks, year)]
    /\ UNCHANGED <<pc, lines, i, data_blocks, header, track_data, actual_records,
                   diagnostics, returned, analysis, raised, fate, earlier, handed>>

\* export_to_json(output_file): False when there is no block or when writing
\* raises (io_ok is false), else the file is written and True returned
ExportToJson(io_ok) ==
    /\ pc \in {"idle", "done"}
    /\ result' =
           IF data_blocks = <<>> \/ ~io_ok
           THEN [op |-> "export_to_json", arg |-> <<>>, ok |-> FALSE, value |-> <<>>]
           ELSE [op |-> "export_to_json", arg |-> <<>>, ok |-> TRUE,
                 value |-> JsonDump(Serializable(data_blocks))]
    /\ UNCHANGED <<pc, lines, i, data_blocks, header, track_data, actual_records,
                   diagnostics, returned, analysis, raised, fate, earlier, handed>>

\* export_to_csv(output_file): likewise
ExportToCsv(io_ok) ==
    /\ pc \in {"idle", "done"}
    /\ result' =
           IF data_blocks = <<>> \/ ~io_ok
           THEN [op |-> "export_to_csv", arg |-> <<>>, ok |-> FALSE, value |-> <<>>]
           ELSE [op |-> "export_to_csv", arg |-> <<>>, ok |-> TRUE,
                 value |-> [columns |-> CsvColumns, rows |-> CsvRows(data_blocks)]]
    /\ UNCHANGED <<pc, lines, i, data_blocks, header, track_data, actual_records,
                   diagnostics, returned, analysis, raised, fate, earlier, handed>>

\* print_trv_example(data_blocks, index), on the list parse_file returned
PrintTrvExample(index) ==
    /\ pc \in {"idle", "done"}
    /\ result' = [op |-> "print_trv_example", arg |-> index,
                  ok |-> PrintExample(returned, index).raised = "none",
                  value |-> PrintExample(returned, index)]
    /\ UNCHANGED <<pc, lines, i, data_blocks, header, track_data, actual_records,
                   diagnostics, returned, analysis, raised, fate, earlier, handed>>

ScanStep ==
    \/ HeaderBadArity
    \/ HeaderValueError
    \/ HeaderAccepted
    \/ SkipLine
    \/ ParseReturn
    \/ TrackLoopEnd
    \/ TrackSentinelBreak
    \/ TrackBadArity
    \/ TrackValueError
    \/ TrackAppend

\* a parser that has parsed a file is given another one
ParseAgain ==
    /\ pc = "done"
    /\ Len(handed) < MaxCalls
    /\ lines \in RepeatFiles

\* the lookups and the exports are called between parses
CanQuery ==
    /\ pc \in {"idle", "done"}
    /\ lines \in QueryFiles

Next ==
    \/ pc = "idle" /\ \E f \in InputFiles : ParseFile(f)
    \/ ParseAgain /\ \E f \in RepeatFiles : ParseFile(f)
    \/ /\ pc = "idle" \/ ParseAgain
       /\ \E err \in {"FileNotFoundError", "Exception"} : ParseFileUnreadable(err)
    \/ ScanStep
    \/ Analyze
    \/ CanQuery /\ \E name \in NameQueries : GetTrvByName(name)
    \/ CanQuery /\ \E year \in YearQueries : GetTrvByYear(year)
    \/ CanQuery /\ \E io_ok \in BOOLEAN : ExportToJson(io_ok)
    \/ CanQuery /\ \E io_ok \in BOOLEAN : ExportToCsv(io_ok)
    \/ CanQuery /\ \E index \in 0..MaxIndex : PrintTrvExample(index)

Spec == Init /\ [][Next]_vars

-----------------------------------------------------------------------------
(* What the input text says, read independently of the scanner's state.    *)

SentinelAt(j) == LineTable[lines[j]].sentinel
FieldsAt(j) == LineTable[lines[j]].fields
HeaderLines == {j \in 1..Len(lines) : SentinelAt(j)}

\* what each line of text is, worked out once for every line: a valid
\* header is a sentinel line with 8 fields, integer record count and stop
\* reason; a valid track line has 6 fields, the last five integers, and is
\* no sentinel line
LineFacts ==
    [l \in AllLines |->
        LET f == LineTable[l].fields
            sentinel == LineTable[l].sentinel
        IN  [valid_header |->
                 /\ sentinel
                 /\ Len(f) = 8
                 /\ FieldIsInt(f[3])
                 /\ FieldIsInt(f[6]),
             valid_track |->
                 /\ ~sentinel
                 /\ Len(f) = 6
                 /\ \A k \in 2..6 : FieldIsInt(f[k]),
             header |->
                 IF sentinel /\ Len(f) = 8 /\ FieldIsInt(f[3]) /\ FieldIsInt(f[6])
                 THEN HeaderData(f) ELSE NoHeader,
             track |->
                 IF ~sentinel /\ Len(f) = 6 /\ \A k \in 2..6 : FieldIsInt(f[k])
                 THEN <<TrackData(f)>> ELSE <<>>]]

ValidHeaderAt(j) == LineFacts[lines[j]].valid_header
ValidTrackAt(j) == LineFacts[lines[j]].valid_track

\* the header record of valid header line j, the point of valid track line j
HeaderAt(j) == LineFacts[lines[j]].header
TrackAt(j) == LineFacts[lines[j]].track[1]

\* the last line before the next sentinel line after line j, or the last line
RECURSIVE SectionEnd(_)
SectionEnd(j) ==
    IF j + 1 > Len(lines) \/ SentinelAt(j + 1) THEN j ELSE SectionEnd(j + 1)

\* the lines after line h up to the next sentinel line or the end of input
Section(h) == (h + 1)..SectionEnd(h)

ValidTracksIn(h) == {j \in Section(h) : ValidTrackAt(j)}

\* the valid track lines among lines j, j + 1, ... of a section, in order
RECURSIVE ValidFrom(_)
ValidFrom(j) ==
    IF j > Len(lines) \/ SentinelAt(j) THEN <<>>
    ELSE (IF ValidTrackAt(j) THEN <<j>> ELSE <<>>) \o ValidFrom(j + 1)

\* the k-th smallest element of a set of line numbers
Nth(S, k) == CHOOSE j \in S : Cardinality({m \in S : m <= j}) = k

DeclaredCount(h) == FieldInt(FieldsAt(h)[3])

\* the block the scan built from header line h
BlockOf(h) == data_blocks[fate[h].block]

Parsed == pc = "done"

\* analyze_dataset has returned a summary of a non-empty block list
HasSummary == raised = "none" /\ analysis # NoValue /\ analysis # EmptyDict

\* analyze_dataset has been called on the current blocks
Analyzed == raised # "none" \/ analysis # NoValue

-----------------------------------------------------------------------------
(* C1.                                                                     *)

\* well-formed as the claim words it: arity of every line, and the counts
WellFormedArity ==
    /\ \A j \in 1..Len(lines) :
          IF SentinelAt(j) THEN Len(FieldsAt(j)) = 8 ELSE Len(FieldsAt(j)) = 6
    /\ \A h \in HeaderLines :
          /\ FieldIsInt(FieldsAt(h)[3])
          /\ DeclaredCount(h) = Cardinality(Section(h))

\* and every integer field holds an integer
WellFormedTyped ==
    /\ WellFormedArity
    /\ \A j \in 1..Len(lines) :
          IF SentinelAt(j) THEN FieldIsInt(FieldsAt(j)[6])
          ELSE \A k \in 2..6 : FieldIsInt(FieldsAt(j)[k])

\* one block per header line, in the order of the header lines, each with as
\* many track points as its header declares
OneBlockPerHeader ==
    /\ Len(data_blocks) = Cardinality(HeaderLines)
    /\ \A k \in 1..Len(data_blocks) :
          LET f == FieldsAt(Nth(HeaderLines, k))
              h == data_blocks[k].header
          IN  /\ h.flag = f[1] /\ h.intl_code = f[2]
              /\ h.record_count = FieldInt(f[3])
              /\ h.sequence_num = f[4] /\ h.china_code = f[5]
              /\ h.name = f[7] /\ h.start_date = f[8]
              /\ Len(data_blocks[k].track) = h.record_count

\* C1 as stated: for every input that is well-formed in arity and counts,
\* parse_file returns one block per header line, in order, and every block
\* has len(track) == header.record_count.
C1_AsStated == (Parsed /\ WellFormedArity) => OneBlockPerHeader

\* C1, amended: for every input that is well-formed in arity and counts and
\* whose integer fields (record count and stop reason of a header, the five
\* numeric fields of a track line) all parse as integers, parse_file returns
\* one block per header line, in order, and every block has
\* len(track) == header.record_count.
C1_WellFormed ==
    (Parsed /\ WellFormedTyped) => (OneBlockPerHeader /\ returned = data_blocks)

C1_Witness ==
    /\ Parsed /\ WellFormedTyped
    /\ Len(data_blocks) = 2
    /\ Len(data_blocks[1].track) = 2
    /\ data_blocks[1].header # data_blocks[2].header

-----------------------------------------------------------------------------
(* C2.                                                                     *)

\* C2: the track loop never consumes a line that starts with the sentinel:
\* with the cursor on such a line it exits, the cursor unchanged, and the
\* outer loop evaluates the line next.  A header followed at once by another
\* sentinel line, or declaring 0 points, yields a block with an empty track,
\* and a header that follows it yields the next block.
C2_SentinelNotConsumed ==
    /\ [][(pc = "inner" /\ i < Len(lines) /\ SentinelAt(i + 1))
            => (i' = i /\ pc' = "outer" /\ fate' = fate
                /\ Len(data_blocks') = Len(data_blocks) + 1)]_vars
    /\ [](Parsed =>
            \A h \in HeaderLines :
                (ValidHeaderAt(h) /\ (h + 1 \in HeaderLines \/ DeclaredCount(h) = 0))
                => /\ fate[h].kind = "header"
                   /\ BlockOf(h).track = <<>>
                   /\ (h + 1 \in HeaderLines /\ ValidHeaderAt(h + 1))
                      => fate[h + 1] = [kind |-> "header", block |-> fate[h].block + 1])

C2_Witness ==
    /\ Parsed
    /\ \E h \in HeaderLines :
          /\ ValidHeaderAt(h) /\ DeclaredCount(h) > 0
          /\ h + 1 \in HeaderLines /\ ValidHeaderAt(h + 1)
          /\ BlockOf(h).track = <<>>
          /\ fate[h + 1].block = fate[h].block + 1

-----------------------------------------------------------------------------
(* C3.                                                                     *)

MalformedTrackAt(j) == ~SentinelAt(j) /\ ~ValidTrackAt(j)

\* the valid track lines of header h's section that the declared count
\* admits, in order
Admitted(h) == Prefix(ValidFrom(h + 1), DeclaredCount(h))

\* the track the text of header h's section determines
SectionTrack(h) ==
    LET a == Admitted(h) IN [k \in 1..Len(a) |-> TrackAt(a[k])]

\* C3: a malformed track line inside a block is dropped: the cursor advances
\* by one, nothing is counted or appended, and the block stays open; every
\* valid track line of the section that the declared count still admits is
\* appended, in order, to the same block.
C3_MalformedTrackDropped ==
    /\ [][(/\ pc = "inner" /\ i < Len(lines)
           /\ actual_records < header.record_count
           /\ MalformedTrackAt(i + 1))
            => (/\ i' = i + 1 /\ pc' = "inner"
                /\ actual_records' = actual_records
                /\ track_data' = track_data /\ header' = header
                /\ data_blocks' = data_blocks
                /\ Len(diagnostics') = Len(diagnostics) + 1
                /\ diagnostics'[Len(diagnostics')].line = i + 1)]_vars
    /\ [](Parsed =>
            \A h \in HeaderLines : ValidHeaderAt(h) =>
                LET a == Admitted(h)
                IN  /\ fate[h].kind = "header"
                    /\ BlockOf(h).track = SectionTrack(h)
                    /\ \A k \in 1..Len(a) :
                          fate[a[k]] = [kind |-> "track", block |-> fate[h].block])

C3_Witness ==
    /\ Parsed
    /\ \E h \in HeaderLines :
          /\ ValidHeaderAt(h)
          /\ {h + 1, h + 2, h + 3} \subseteq Section(h)
          /\ ValidTrackAt(h + 1) /\ MalformedTrackAt(h + 2) /\ ValidTrackAt(h + 3)
          /\ Len(BlockOf(h).track) = 2
          /\ fate[h + 2].kind = "dropped"

-----------------------------------------------------------------------------
(* C4.                                                                     *)

ValidHeaders == {h \in HeaderLines : ValidHeaderAt(h)}

MismatchPrinted(h, n, m) ==
    \E d \in 1..Len(diagnostics) :
        /\ diagnostics[d].kind = "mismatch"
        /\ diagnostics[d].name = FieldsAt(h)[7]
        /\ diagnostics[d].start_date = FieldsAt(h)[8]
        /\ diagnostics[d].expected = n
        /\ diagnostics[d].got = m

\* C4: a header declaring N points with only M < N valid track lines before
\* the next sentinel line or the end of input yields a block of exactly M
\* points, a mismatch message naming the block's name and start date, and the
\* next header's block is what its own section determines.
C4_ShortBlock ==
    Parsed =>
        \A h \in ValidHeaders :
            Cardinality(ValidTracksIn(h)) < DeclaredCount(h) =>
                /\ fate[h].kind = "header"
                /\ fate[h].block \in 1..Len(returned)
                /\ Len(returned[fate[h].block].track) = Cardinality(ValidTracksIn(h))
                /\ MismatchPrinted(h, DeclaredCount(h), Cardinality(ValidTracksIn(h)))
                /\ \A g \in ValidHeaders :
                      (g > h /\ \A m \in ValidHeaders : ~(h < m /\ m < g)) =>
                          /\ fate[g] = [kind |-> "header", block |-> fate[h].block + 1]
                          /\ BlockOf(g).track = SectionTrack(g)

C4_Witness ==
    /\ Parsed
    /\ \E h \in ValidHeaders, g \in ValidHeaders :
          /\ h < g
          /\ Cardinality(ValidTracksIn(h)) = 1
          /\ DeclaredCount(h) = 2
          /\ Len(BlockOf(h).track) = 1
          /\ Len(BlockOf(g).track) = 1

-----------------------------------------------------------------------------
(* C5.                                                                     *)

KnownLabels == {stop_reason_labels[r] : r \in 0..3}
UnknownBlocks ==
    {k \in 1..Len(data_blocks) : data_blocks[k].header.stop_reason \notin 0..3}

\* C5: analyze_dataset on blocks that include a stop_reason outside {0,1,2,3}
\* raises nothing and counts those blocks under "Unknown", beside the four
\* known labels.
C5_UnknownCounted ==
    (Analyzed /\ UnknownBlocks # {}) =>
        /\ raised = "none"
        /\ analysis # NoValue
        /\ DOMAIN analysis.stop_reason_counts = KnownLabels \cup {"Unknown"}
        /\ analysis.stop_reason_counts["Unknown"] = Cardinality(UnknownBlocks)

-----------------------------------------------------------------------------
(* C6.                                                                     *)

\* C6: every line the scan consumes without making it a header or a track
\* point of a block has a message naming its line number, and every block
\* whose collected count differs from its declared count has a mismatch
\* message.
C6_EveryDropReported ==
    Parsed =>
        /\ \A j \in 1..Len(lines) :
              fate[j].kind = "dropped" =>
                  \E d \in 1..Len(diagnostics) : diagnostics[d].line = j
        /\ \A k \in 1..Len(data_blocks) :
              Len(data_blocks[k].track) # data_blocks[k].header.record_count =>
                  \E d \in 1..Len(diagnostics) :
                      /\ diagnostics[d].kind = "mismatch"
                      /\ diagnostics[d].name = data_blocks[k].header.name
                      /\ diagnostics[d].start_date = data_blocks[k].header.start_date

-----------------------------------------------------------------------------
(* C7.                                                                     *)

Scanning == pc \in {"outer", "inner"}

\* the branch the scan takes next
BranchTaken ==
    \/ OnHeaderBadArity
    \/ OnHeaderValueError
    \/ OnHeaderAccepted
    \/ OnSkipLine
    \/ OnParseReturn
    \/ OnTrackLoopEnd
    \/ OnTrackSentinelBreak
    \/ OnTrackBadArity
    \/ OnTrackValueError
    \/ OnTrackAppend

\* decreases with every step of the scan
Rank ==
    2 * (Len(lines) - i)
        + (CASE pc = "outer" -> 1 [] pc = "inner" -> 2 [] OTHER -> 0)

\* C7: parse_file raises nothing and terminates: the cursor never decreases,
\* it grows by exactly one on every step that consumes a line, every step of
\* the two loops brings the scan nearer its end, some step is always
\* possible until it ends, and it ends with the cursor at the number of lines.
C7_CursorTerminates ==
    /\ [][Scanning =>
            /\ i' \in {i, i + 1}
            /\ (i' = i + 1) <=> (fate' # fate)
            /\ (fate' # fate) =>
                  /\ fate[i + 1] = Unread
                  /\ fate'[i + 1] # Unread
                  /\ \A j \in 1..Len(lines) : j # i + 1 => fate'[j] = fate[j]
            /\ Rank' < Rank
            /\ Rank' >= 0
            /\ lines' = lines
            /\ raised' = "none"]_vars
    /\ [](Scanning => BranchTaken)
    /\ [](Parsed =>
            /\ i = Len(lines)
            /\ \A j \in 1..Len(lines) : fate[j] # Unread)

C7_Witness ==
    /\ Parsed
    /\ i = MaxLines
    /\ \E j \in 1..Len(lines) : fate[j].kind = "track"
    /\ \E j \in 1..Len(lines) : fate[j].kind = "dropped"

-----------------------------------------------------------------------------
(* C8.                                                                     *)

\* blocks of year y with at least n track points
BlocksOfYear(y, n) ==
    {k \in 1..Len(data_blocks) :
        /\ Prefix(data_blocks[k].header.start_date, 4) = y
        /\ Len(data_blocks[k].track) >= n}

-----------------------------------------------------------------------------
(* C9.                                                                     *)

\* C9: in the summary of a non-empty block list the three duration mappings
\* have exactly the years of year_counts as keys; a year without a
\* qualifying block is there with 0.
C9_SameYears ==
    HasSummary =>
        /\ DOMAIN analysis.year_counts_by_duration.h6 = DOMAIN analysis.year_counts
        /\ DOMAIN analysis.year_counts_by_duration.h12 = DOMAIN analysis.year_counts
        /\ DOMAIN analysis.year_counts_by_duration.h24 = DOMAIN analysis.year_counts
        /\ \A y \in DOMAIN analysis.year_counts :
              BlocksOfYear(y, 7) = {} =>
                  /\ y \in DOMAIN analysis.year_counts_by_duration.h6
                  /\ analysis.year_counts_by_duration.h6[y] = 0

C9_Witness ==
    /\ HasSummary
    /\ \E y \in DOMAIN analysis.year_counts, z \in DOMAIN analysis.year_counts :
          /\ analysis.year_counts_by_duration.h6[y] = 0
          /\ analysis.year_counts_by_duration.h24[y] = 0
          /\ analysis.year_counts_by_duration.h6[z] = 1
          /\ analysis.year_counts_by_duration.h24[z] = 0

-----------------------------------------------------------------------------
(* C10.                                                                    *)

\* C10: analyze_dataset on an empty block list returns the empty summary and
\* raises nothing.
C10_EmptySummary ==
    (Analyzed /\ data_blocks = <<>>) => (analysis = EmptyDict /\ raised = "none")

C10_Witness ==
    /\ Parsed
    /\ Len(lines) > 0
    /\ data_blocks = <<>>
    /\ analysis = EmptyDict

-----------------------------------------------------------------------------
(* C11.                                                                    *)

ReadErrors == {"FileNotFoundError", "Exception"}

\* a parse_file call that began and ended in one step: the file was not read
UnreadableCall == pc \in {"idle", "done"} /\ pc' = "done" /\ earlier' # earlier

\* C11: when the file cannot be opened or read, parse_file returns an empty
\* list, prints a message, and lets no exception reach the caller.
C11_UnreadableFile ==
    [][UnreadableCall =>
          /\ raised' = "none"
          /\ returned' = <<>>
          /\ Len(handed') = Len(handed) + 1
          /\ handed'[Len(handed')].was = <<>>
          /\ Len(diagnostics') = 1
          /\ diagnostics'[1].kind \in ReadErrors]_vars

C11_Witness ==
    /\ pc = "done"
    /\ Len(handed) = 2
    /\ handed[1].was # <<>>
    /\ handed[2].obj = NewList
    /\ returned = <<>>
    /\ diagnostics # <<>>
    /\ diagnostics[1].kind = "FileNotFoundError"

-----------------------------------------------------------------------------
(* C12.                                                                    *)

\* a sentinel line that is no valid header
MalformedHeaderAt(j) == SentinelAt(j) /\ ~ValidHeaderAt(j)

\* the lines whose track point went into block k
LinesOfBlock(k) ==
    {j \in 1..Len(lines) : fate[j] = [kind |-> "track", block |-> k]}

\* C12: a sentinel line that is a malformed header yields no block: the
\* cursor moves past it by one, a message is printed, and the track lines
\* after it up to the next sentinel line go into no block, neither one of
\* its own nor the block before it, however few points that block has.
C12_MalformedHeaderDropped ==
    /\ [][(pc = "outer" /\ i < Len(lines) /\ MalformedHeaderAt(i + 1)) =>
              /\ i' = i + 1
              /\ pc' = "outer"
              /\ data_blocks' = data_blocks
              /\ Len(diagnostics') = Len(diagnostics) + 1
              /\ diagnostics'[Len(diagnostics')].kind
                     \in {"header_fields", "header_parse"}
              /\ diagnostics'[Len(diagnostics')].line = i + 1]_vars
    /\ [](Parsed =>
            /\ Len(data_blocks) = Cardinality(ValidHeaders)
            /\ \A k \in 1..Len(data_blocks) :
                  Len(data_blocks[k].track) = Cardinality(LinesOfBlock(k))
            /\ \A j \in 1..Len(lines) :
                  MalformedHeaderAt(j) =>
                      /\ fate[j] = [kind |-> "dropped", block |-> 0]
                      /\ \A m \in Section(j) :
                            fate[m] = [kind |-> "dropped", block |-> 0])

C12_Witness ==
    /\ Parsed
    /\ Len(lines) = 4
    /\ ValidHeaderAt(1)
    /\ MalformedHeaderAt(3)
    /\ ValidTrackAt(4)
    /\ fate[4].kind = "dropped"
    /\ Len(data_blocks) = 1
    /\ Len(data_blocks[1].track) = 1
    /\ data_blocks[1].header.record_count = 2

-----------------------------------------------------------------------------
(* C13.                                                                    *)

\* C13: the flag of the header of every block parse_file returns is the
\* string "66666" exactly.
C13_FlagIsSentinel ==
    Parsed => \A k \in 1..Len(returned) : returned[k].header.flag = Flag66666

-----------------------------------------------------------------------------
(* C14.                                                                    *)

\* C14: the record_count of the header of every block parse_file returns is
\* a non-negative integer.
C14_CountNonNegative ==
    Parsed => \A k \in 1..Len(returned) : returned[k].header.record_count >= 0

-----------------------------------------------------------------------------
(* C15.                                                                    *)

\* two strings that differ in the case of their letters at most
SameIgnoringCase(a, b) ==
    /\ Len(a) = Len(b)
    /\ \A k \in 1..Len(a) :
          \/ a[k] = b[k]
          \/ \E j \in 1..Len(UpperChars) :
                {a[k], b[k]} = {UpperChars[j], LowerChars[j]}

\* found is the blocks of data_blocks at the positions in S, in their order
SubsequenceAt(found, S) ==
    /\ Len(found) = Cardinality(S)
    /\ \A n \in 1..Len(found) : found[n] = data_blocks[Nth(S, n)]

KatrinaSpellings ==
    {NameKatrina, NameUpper, <<"k", "a", "t", "r", "i", "n", "a">>}

\* C15: lookup by name returns exactly the blocks whose name equals the query
\* when case is ignored, in their original order; a block named "Katrina" is
\* returned for "katrina", "KATRINA" and "Katrina".
C15_LookupByName ==
    result.op = "get_trv_by_name" =>
        /\ SubsequenceAt(result.value,
               {k \in 1..Len(data_blocks) :
                   SameIgnoringCase(data_blocks[k].header.name, result.arg)})
        /\ \A k \in 1..Len(data_blocks) :
              (data_blocks[k].header.name = NameKatrina
                  /\ result.arg \in KatrinaSpellings) =>
                      \E n \in 1..Len(result.value) :
                          result.value[n] = data_blocks[k]

C15_Witness ==
    /\ result.op = "get_trv_by_name"
    /\ result.arg = NameUpper
    /\ Len(data_blocks) = 3
    /\ Len(result.value) = 2
    /\ data_blocks[1].header.name = NameKatrina
    /\ data_blocks[2].header.name = NameQuoted
    /\ result.value[2] = data_blocks[3]

-----------------------------------------------------------------------------
(* C16.                                                                    *)

\* the string begins with the year
BeginsWith(date, year) ==
    /\ Len(date) >= Len(year)
    /\ \A k \in 1..Len(year) : date[k] = year[k]

\* C16: lookup by year, given a 4-character year, returns exactly the blocks
\* whose start_date begins with it, in their original order, and as many of
\* them as year_counts of the summary of the same blocks counts for the year.
C16_LookupByYear ==
    (result.op = "get_trv_by_year" /\ Len(result.arg) = 4) =>
        /\ SubsequenceAt(result.value,
               {k \in 1..Len(data_blocks) :
                   BeginsWith(data_blocks[k].header.start_date, result.arg)})
        /\ HasSummary =>
              Len(result.value) = DictGet(analysis.year_counts, result.arg, 0)

C16_Witness ==
    /\ result.op = "get_trv_by_year"
    /\ result.arg = <<"1", "9", "8", "0">>
    /\ HasSummary
    /\ Len(data_blocks) = 3
    /\ Len(result.value) = 2
    /\ result.value[2] = data_blocks[3]
    /\ analysis.year_counts[result.arg] = 2
    /\ DOMAIN analysis.year_counts = {<<"1", "9", "8", "0">>, <<"1", "9", "8">>}

-----------------------------------------------------------------------------
(* C17.  Reading the written file back, as json.load reads it.             *)

\* the str inside the quotes of a JSON string
RECURSIVE JsonUnescape(_)
JsonUnescape(s) ==
    IF s = <<>> THEN <<>>
    ELSE IF Head(s) = "\\" /\ Len(s) >= 2
    THEN (CASE s[2] = "t" -> <<"\t">>
            [] OTHER -> <<s[2]>>) \o JsonUnescape(SubSeq(s, 3, Len(s)))
    ELSE <<Head(s)>> \o JsonUnescape(Tail(s))

\* a JSON integer: an optional minus sign, then digits
JsonIsNumber(t) ==
    LET d == IF t # <<>> /\ Head(t) = "-" THEN Tail(t) ELSE t
    IN  d # <<>> /\ \A k \in 1..Len(d) : d[k] \in DigitSet

\* the value a JSON text stands for: a str when quoted, an int when a number
JsonValue(t) ==
    IF Len(t) >= 2 /\ Head(t) = "\"" /\ t[Len(t)] = "\""
    THEN PyStr(JsonUnescape(SubSeq(t, 2, Len(t) - 1)))
    ELSE IF JsonIsNumber(t) THEN PyInt(IntValue(t))
    ELSE [type |-> "error", n |-> 0, s |-> t]

JsonRead(object) == [k \in DOMAIN object |-> JsonValue(object[k])]

JsonLoad(file) ==
    [k \in 1..Len(file) |->
        [header |-> JsonRead(file[k].header),
         track |-> [j \in 1..Len(file[k].track) |-> JsonRead(file[k].track[j])]]]

\* C17: what export_to_json writes for a dataset of at least one block, read
\* back, is the same sequence of blocks, every header field and every track
\* field with the value and the type (int or str) it was parsed with.
C17_JsonRoundTrip ==
    (result.op = "export_to_json" /\ result.ok) =>
        /\ data_blocks # <<>>
        /\ JsonLoad(result.value) = Serializable(data_blocks)

C17_Witness ==
    /\ result.op = "export_to_json"
    /\ result.ok
    /\ Len(data_blocks) = 3
    /\ data_blocks[2].header.name = NameQuoted
    /\ Len(data_blocks[2].track) = 1
    /\ data_blocks[2].track[1].vorticity < 0
    /\ Len(data_blocks[3].track) = 1

-----------------------------------------------------------------------------
(* C18.                                                                    *)

ActualLengths == {Len(data_blocks[k].track) : k \in 1..Len(data_blocks)}

\* the lines whose track point is stored in some block
StoredPoints == {j \in 1..Len(lines) : fate[j].kind = "track"}

RECURSIVE DeclaredTotal(_)
DeclaredTotal(blocks) ==
    IF blocks = <<>> THEN 0
    ELSE Head(blocks).header.record_count + DeclaredTotal(Tail(blocks))

\* C18: track_length_stats are taken over the numbers of points the blocks
\* hold, not over the declared counts: min and max are the smallest and the
\* largest of them, total_points their sum, which is the number of track
\* points stored in all blocks, and mean is that sum over the number of blocks.
C18_StatsOverActual ==
    HasSummary =>
        /\ analysis.track_length_stats.min \in ActualLengths
        /\ analysis.track_length_stats.max \in ActualLengths
        /\ \A n \in ActualLengths :
              /\ analysis.track_length_stats.min <= n
              /\ n <= analysis.track_length_stats.max
        /\ analysis.track_length_stats.total_points = Cardinality(StoredPoints)
        /\ analysis.track_length_stats.mean =
               [num |-> Cardinality(StoredPoints), den |-> Len(data_blocks)]

C18_Witness ==
    /\ HasSummary
    /\ Len(data_blocks) = 2
    /\ data_blocks[1].header.record_count = 2
    /\ Len(data_blocks[1].track) = 1
    /\ Len(data_blocks[2].track) = 0
    /\ analysis.track_length_stats.min = 0
    /\ analysis.track_length_stats.max = 1
    /\ analysis.track_length_stats.total_points = 1
    /\ DeclaredTotal(data_blocks) = 4

-----------------------------------------------------------------------------
(* C19.                                                                    *)

\* the number of track points the blocks before block k hold
RECURSIVE PointsBefore(_)
PointsBefore(k) ==
    IF k <= 1 THEN 0
    ELSE PointsBefore(k - 1) + Len(data_blocks[k - 1].track)

\* the row is the one written for point j of block k
RowOf(row, k, j) ==
    /\ row.TRV_Name = data_blocks[k].header.name
    /\ row.Start_Date = data_blocks[k].header.start_date
    /\ row.China_Code = data_blocks[k].header.china_code
    /\ row.Stop_Reason = data_blocks[k].header.stop_reason
    /\ row.Time = data_blocks[k].track[j].time
    /\ row.Latitude.num = data_blocks[k].track[j].lat
    /\ row.Longitude.num = data_blocks[k].track[j].lon
    /\ row.Stream_Function = data_blocks[k].track[j].stream_func
    /\ row.Vorticity = data_blocks[k].track[j].vorticity
    /\ row.Velocity.num = data_blocks[k].track[j].velocity

\* C19: export_to_csv writes one data row for every track point of every
\* block, in block order and then track order: as many rows as the blocks
\* hold points, and none for a block whose track is empty.
C19_CsvRowPerPoint ==
    (result.op = "export_to_csv" /\ result.ok) =>
        /\ result.value.columns = CsvColumns
        /\ Len(result.value.rows) = PointsBefore(Len(data_blocks) + 1)
        /\ Len(result.value.rows) = Cardinality(StoredPoints)
        /\ \A k \in 1..Len(data_blocks) :
              \A j \in 1..Len(data_blocks[k].track) :
                  RowOf(result.value.rows[PointsBefore(k) + j], k, j)

C19_Witness ==
    /\ result.op = "export_to_csv"
    /\ result.ok
    /\ Len(data_blocks) = 3
    /\ Len(data_blocks[1].track) = 1
    /\ data_blocks[2].track = <<>>
    /\ Len(data_blocks[3].track) = 1
    /\ Len(result.value.rows) = 2
    /\ RowOf(result.value.rows[2], 3, 1)

-----------------------------------------------------------------------------
(* C20.                                                                    *)

\* what the list object holds now
ObjValue(obj) ==
    IF obj = NewList THEN <<>>
    ELSE IF obj = SelfList THEN data_blocks
    ELSE earlier[obj]

\* the header lines of this call's input that became blocks
HeadersOfBlock(k) ==
    {h \in 1..Len(lines) : fate[h] = [kind |-> "header", block |-> k]}

\* C20: every parse_file call has a result list of its own: the list the
\* latest call returned holds blocks built from that call's input only, and
\* a list an earlier call returned is never changed by a later call.
C20_FreshResult ==
    /\ \A c \in 1..Len(handed) :
          /\ ObjValue(handed[c].obj) = handed[c].was
          /\ (c < Len(handed) \/ pc # "done") => handed[c].obj # SelfList
    /\ Parsed =>
          /\ returned = data_blocks
          /\ returned = handed[Len(handed)].was
          /\ \A k \in 1..Len(returned) :
                LET from == LinesOfBlock(k)
                IN  /\ \E h \in HeadersOfBlock(k) :
                          returned[k].header = HeaderAt(h)
                    /\ Len(returned[k].track) = Cardinality(from)
                    /\ \A n \in 1..Len(returned[k].track) :
                          \E j \in from : returned[k].track[n] = TrackAt(j)

C20_Witness ==
    /\ Parsed
    /\ Len(handed) = 2
    /\ Len(handed[1].was) = 2
    /\ Len(returned) = 1
    /\ returned[1] # handed[1].was[1]
    /\ earlier[handed[1].obj] = handed[1].was

-----------------------------------------------------------------------------
(* C21.                                                                    *)

\* a call made between parses: no parse_file call begins or ends in the step
BetweenParses ==
    /\ pc \in {"idle", "done"}
    /\ pc' = pc
    /\ Len(handed') = Len(handed)

\* C21: analyze_dataset, get_trv_by_name and get_trv_by_year leave the
\* parser's blocks as they are: the same blocks in the same order, with the
\* same headers and tracks, before and after any sequence of these calls.
C21_BlocksUnchanged ==
    [][BetweenParses =>
          /\ data_blocks' = data_blocks
          /\ earlier' = earlier
          /\ returned' = returned]_vars

C21_Witness ==
    /\ HasSummary
    /\ result.op = "get_trv_by_year"
    /\ Len(data_blocks) = 3
    /\ Len(result.value) = 1
    /\ returned = data_blocks
    /\ \A k \in 1..3 : Len(data_blocks[k].track) = 1

-----------------------------------------------------------------------------
(* C22.                                                                    *)

\* C22: for every line sequence the blocks parse_file returns correspond one
\* to one, in order, to the valid header lines of the input: every valid
\* header line yields exactly one block whatever the lines before it are, and
\* no other line yields a block.
C22_BlockPerValidHeader ==
    Parsed =>
        /\ Len(returned) = Cardinality(ValidHeaders)
        /\ \A k \in 1..Len(returned) :
              /\ returned[k].header = HeaderAt(Nth(ValidHeaders, k))
              /\ fate[Nth(ValidHeaders, k)] = [kind |-> "header", block |-> k]
        /\ \A j \in 1..Len(lines) :
              j \notin ValidHeaders => fate[j].kind # "header"

C22_Witness ==
    /\ Parsed
    /\ Len(lines) = 4
    /\ MalformedHeaderAt(1)
    /\ MalformedTrackAt(3)
    /\ ValidHeaders = {2, 4}
    /\ Len(returned) = 2
    /\ returned[1].header.record_count = 2
    /\ returned[1].track = <<>>

-----------------------------------------------------------------------------
(* C23.                                                                    *)

Max0(n) == IF n < 0 THEN 0 ELSE n
Least(a, b) == IF a < b THEN a ELSE b

\* C23: every returned block has len(track) <= max(record_count, 0), and its
\* points are, in input order, the first record_count valid track lines
\* strictly between its header line and the next sentinel line or the end of
\* input; no point comes from a line after that sentinel line.
C23_TrackWithinSection ==
    Parsed =>
        \A k \in 1..Len(returned) :
            \A h \in HeadersOfBlock(k) :
                LET valid == ValidFrom(h + 1)
                    first == Prefix(valid, returned[k].header.record_count)
                    last == SectionEnd(h)
                IN  /\ Len(returned[k].track) <= Max0(returned[k].header.record_count)
                    /\ Len(returned[k].track) =
                           Least(Max0(returned[k].header.record_count), Len(valid))
                    /\ returned[k].track =
                           [n \in 1..Len(first) |-> TrackAt(first[n])]
                    /\ \A n \in 1..Len(first) :
                          fate[first[n]] = [kind |-> "track", block |-> k]
                    /\ Cardinality(LinesOfBlock(k)) = Len(first)
                    /\ \A j \in LinesOfBlock(k) : h < j /\ j <= last

C23_Witness ==
    /\ Parsed
    /\ Len(lines) = 4
    /\ ValidHeaderAt(1)
    /\ ValidTrackAt(2) /\ ValidTrackAt(3) /\ ValidTrackAt(4)
    /\ returned[1].header.record_count = 2
    /\ Len(returned[1].track) = 2
    /\ fate[4].kind = "dropped"

-----------------------------------------------------------------------------
(* C24.                                                                    *)

\* C24: the two parser variants agree: on every line sequence
\* TCRLParser.parse_file returns the blocks TRVParser.parse_file returns, and
\* on the same blocks the two analyze_dataset agree on total_blocks,
\* year_counts, stop_reason_counts, track_length_stats and years_covered (and
\* raise alike).
C24_VariantsAgree ==
    /\ Parsed => TcrlParseFile(lines) = returned
    /\ Analyzed =>
          LET t == TcrlAnalyzeDataset(data_blocks)
          IN  /\ t.raised = raised
              /\ analysis = EmptyDict <=> t.value = EmptyDict
              /\ HasSummary =>
                    /\ t.value.total_blocks = analysis.total_blocks
                    /\ t.value.year_counts = analysis.year_counts
                    /\ t.value.stop_reason_counts = analysis.stop_reason_counts
                    /\ t.value.track_length_stats = analysis.track_length_stats
                    /\ t.value.years_covered = analysis.years_covered

C24_Witness ==
    /\ Parsed
    /\ HasSummary
    /\ Len(lines) = 4
    /\ MalformedTrackAt(2)
    /\ ValidTrackAt(3)
    /\ ValidHeaderAt(4)
    /\ Len(returned) = 2
    /\ TcrlParseFile(lines) = returned
    /\ TcrlAnalyzeDataset(data_blocks).value.total_blocks = 2

-----------------------------------------------------------------------------
(* C25.                                                                    *)

\* print_trv_example has shown a block
ExampleShown == result.op = "print_trv_example" /\ result.value.shown = "example"

\* C25: the "Meets >=6h / >=12h / >=24h" lines print_trv_example shows for a
\* block agree with the aggregator: the block is shown as meeting a threshold
\* exactly when analyze_dataset counts it under that threshold.
C25_IndicatorsAgree ==
    ExampleShown =>
        /\ result.value.meets6h <=> Meets6h(result.value.track_length)
        /\ result.value.meets12h <=> Meets12h(result.value.track_length)
        /\ result.value.meets24h <=> Meets24h(result.value.track_length)

-----------------------------------------------------------------------------
(* C26.                                                                    *)

\* the sum of the values of a dict of numbers
RECURSIVE DictSum(_)
DictSum(d) ==
    IF DOMAIN d = {} THEN 0
    ELSE LET k == CHOOSE x \in DOMAIN d : TRUE
         IN  d[k] + DictSum([x \in DOMAIN d \ {k} |-> d[x]])

\* C26: in every summary, for every year, the "24h" count is at most the
\* "12h" count, that at most the "6h" count, that at most year_counts of the
\* year; and year_counts summed over the years is total_blocks.
C26_CountsNested ==
    HasSummary =>
        /\ \A y \in DOMAIN analysis.year_counts :
              /\ analysis.year_counts_by_duration.h24[y]
                     <= analysis.year_counts_by_duration.h12[y]
              /\ analysis.year_counts_by_duration.h12[y]
                     <= analysis.year_counts_by_duration.h6[y]
              /\ analysis.year_counts_by_duration.h6[y] <= analysis.year_counts[y]
        /\ DictSum(analysis.year_counts) = analysis.total_blocks
        /\ analysis.total_blocks = Len(data_blocks)

C26_Witness ==
    /\ HasSummary
    /\ analysis.total_blocks = 2
    /\ \E y \in DOMAIN analysis.year_counts :
          /\ analysis.year_counts_by_duration.h24[y] = 1
          /\ analysis.year_counts_by_duration.h12[y] = 2
          /\ analysis.year_counts_by_duration.h6[y] = 2
          /\ analysis.year_counts[y] = 2

-----------------------------------------------------------------------------
(* C27.                                                                    *)

\* the latest parse_file call failed to read its file
AfterFailedParse ==
    /\ pc = "done"
    /\ handed # <<>>
    /\ handed[Len(handed)].obj = NewList

\* C27: a parse_file call that fails on I/O discards what the instance had
\* parsed: after it the instance holds no block, analyze_dataset returns the
\* empty summary, both lookups return empty lists, both exports return False.
C27_FailedParseDiscards ==
    AfterFailedParse =>
        /\ data_blocks = <<>>
        /\ Analyzed => (analysis = EmptyDict /\ raised = "none")
        /\ result.op \in {"get_trv_by_name", "get_trv_by_year"} =>
              result.value = <<>>
        /\ result.op \in {"export_to_json", "export_to_csv"} => ~result.ok

C27_Witness ==
    /\ AfterFailedParse
    /\ Len(handed) = 2
    /\ Len(handed[1].was) = 2
    /\ analysis = EmptyDict
    /\ result.op = "get_trv_by_name"
    /\ result.arg = NameKatrina
    /\ result.value = <<>>

-----------------------------------------------------------------------------
(* C28.                                                                    *)

\* C28: print_trv_example raises nothing, for every block list parse_file
\* can return and every index from 0 to len(blocks) - 1, blocks with an
\* empty track included.
C28_ExampleNeverRaises ==
    (result.op = "print_trv_example" /\ result.arg < Len(returned)) =>
        /\ result.value.shown = "example"
        /\ result.value.raised = "none"

====
